---------------------------- MODULE Spec2Model ----------------------------
(***************************************************************************)
(* Model of src/python/story_engine.py: the bedtime-story pipeline         *)
(* (main) with its operator prompts, moral selection, the service calls    *)
(* of the four story stages, and the two pure helpers                      *)
(* (categorize_request, estimate_word_target).                             *)
(*                                                                         *)
(* Representation.  A Python str is a sequence of atoms.  An atom is one   *)
(* character, or (for texts that the program only passes on and strips)    *)
(* an indivisible run of text that neither begins nor ends in whitespace.  *)
(* A Python float holding a decimal literal with at most two fraction      *)
(* digits is represented by the literal's value in units of 1/Scale; the   *)
(* binary rounding of float(raw) and of the product in                     *)
(* estimate_word_target is computed from that value (see TruncatedProduct).*)
(***************************************************************************)
EXTENDS Integers, Sequences, FiniteSets, TLC

VARIABLES
    pc,              \* position of main (or of a helper's driver)
    api_key,         \* os.getenv("OPENAI_API_KEY") is set
    age,             \* main: age
    length_minutes,  \* main: length_minutes, in units of 1/Scale
    user_request,    \* main: user_request
    user_moral,      \* main: user_moral
    response,        \* text the service returned to classify_moral_safety
    selected_moral,  \* main: selected_moral
    overridden,      \* main: overridden
    original_moral,  \* main: original_moral
    category,        \* main: category
    draft,           \* main: draft
    feedback,        \* main: feedback (the judge's critique)
    revised,         \* main: revised
    notes_raw,       \* what input() returned for "Would you like any changes?"
    user_notes,      \* main: user_notes
    started,         \* the calls of pipeline functions, with their arguments
    completed,       \* the names of the pipeline functions that have returned
    calls,           \* the requests made to openai.ChatCompletion.create
    out,             \* the blocks printed by main
    error,           \* the exception that ended main, if any
    reprompted       \* an age or length entry was rejected and asked again

vars == <<pc, api_key, age, length_minutes, user_request, user_moral, response,
          selected_moral, overridden, original_moral, category, draft, feedback,
          revised, notes_raw, user_notes, started, completed, calls, out, error,
          reprompted>>

-----------------------------------------------------------------------------
(* Python values *)

\* None: an atom sequence no text of the model can equal.
None == <<"<None>">>

Whitespace == {" ", "\n", "\t"}

Lowers == <<"a","b","c","d","e","f","g","h","i","j","k","l","m",
            "n","o","p","q","r","s","t","u","v","w","x","y","z">>
Uppers == <<"A","B","C","D","E","F","G","H","I","J","K","L","M",
            "N","O","P","Q","R","S","T","U","V","W","X","Y","Z">>
DigitChars == <<"0","1","2","3","4","5","6","7","8","9">>

Range(s) == {s[i] : i \in DOMAIN s}

\* str.lower / str.upper on one character
LowerChar(c) ==
    IF c \in Range(Uppers) THEN Lowers[CHOOSE k \in DOMAIN Uppers : Uppers[k] = c] ELSE c
UpperChar(c) ==
    IF c \in Range(Lowers) THEN Uppers[CHOOSE k \in DOMAIN Lowers : Lowers[k] = c] ELSE c

lower(text) == [i \in DOMAIN text |-> LowerChar(text[i])]
upper(text) == [i \in DOMAIN text |-> UpperChar(text[i])]

\* str.strip(): drop leading and trailing whitespace
RECURSIVE lstrip(_)
lstrip(text) ==
    IF text # <<>> /\ Head(text) \in Whitespace THEN lstrip(Tail(text)) ELSE text
RECURSIVE rstrip(_)
rstrip(text) ==
    IF text # <<>> /\ text[Len(text)] \in Whitespace
    THEN rstrip(SubSeq(text, 1, Len(text) - 1)) ELSE text
strip(text) == rstrip(lstrip(text))

\* str.startswith
startswith(text, prefix) ==
    Len(text) >= Len(prefix) /\ SubSeq(text, 1, Len(prefix)) = prefix

\* the `in` operator on strings: substring search
Contains(text, kw) ==
    \E i \in 1..(Len(text) - Len(kw) + 1) : SubSeq(text, i, i + Len(kw) - 1) = kw

RECURSIVE DigitsValue(_)
DigitsValue(ds) ==
    IF ds = <<>> THEN 0
    ELSE 10 * DigitsValue(SubSeq(ds, 1, Len(ds) - 1))
         + ((CHOOSE n \in DOMAIN DigitChars : DigitChars[n] = ds[Len(ds)]) - 1)

AllDigits(ds) == ds # <<>> /\ \A i \in DOMAIN ds : ds[i] \in Range(DigitChars)

Unsigned(t) == IF t # <<>> /\ Head(t) \in {"+", "-"} THEN Tail(t) ELSE t
SignOf(t) == IF t # <<>> /\ Head(t) = "-" THEN -1 ELSE 1

\* int(raw): surrounding whitespace ignored, an optional sign, then digits;
\* anything else raises ValueError.
ParseInt(raw) ==
    LET t == strip(raw)
        body == Unsigned(t)
    IN  IF AllDigits(body)
        THEN [kind |-> "int", value |-> SignOf(t) * DigitsValue(body)]
        ELSE [kind |-> "ValueError", value |-> 0]

\* Unit of the fixed-point representation of a float: 1/Scale minute.
Scale == 100

\* float(raw) for the literals of the model: surrounding whitespace ignored,
\* an optional sign, then nan, inf, or digits with an optional fraction of at
\* most two digits; anything else raises ValueError.  A finite value is
\* returned in units of 1/Scale.
ParseFloat(raw) ==
    LET t == strip(raw)
        body == Unsigned(t)
        low == lower(body)
        dot == IF \E i \in DOMAIN body : body[i] = "."
               THEN CHOOSE i \in DOMAIN body : body[i] = "." ELSE 0
        ip == IF dot = 0 THEN body ELSE SubSeq(body, 1, dot - 1)
        fp == IF dot = 0 THEN <<>> ELSE SubSeq(body, dot + 1, Len(body))
        fp2 == IF Len(fp) = 0 THEN <<"0","0">>
               ELSE IF Len(fp) = 1 THEN fp \o <<"0">> ELSE fp
    IN  IF low = <<"n","a","n">> THEN [kind |-> "nan", value |-> 0]
        ELSE IF low = <<"i","n","f">> THEN [kind |-> "inf", value |-> SignOf(t)]
        ELSE IF /\ (ip # <<>> \/ fp # <<>>)
                /\ (ip = <<>> \/ AllDigits(ip))
                /\ (fp = <<>> \/ AllDigits(fp))
                /\ Len(fp) <= 2
        THEN [kind |-> "finite",
              value |-> SignOf(t) * (DigitsValue(ip) * Scale + DigitsValue(fp2))]
        ELSE [kind |-> "ValueError", value |-> 0]

-----------------------------------------------------------------------------
(* Length helpers *)

WordsPerMinute == 150
MinMinutes == 5
MaxMinutes == 20
MinAge == 5
MaxAge == 10

\* Bits of the significand of a Python float (IEEE 754 binary64).
MantissaBits == 53

RECURSIVE FloorLog2(_)
FloorLog2(n) == IF n <= 1 THEN 0 ELSE 1 + FloorLog2(n \div 2)

RECURSIVE Pow2(_)
Pow2(e) == IF e = 0 THEN 1 ELSE 2 * Pow2(e - 1)

RECURSIVE PowMod(_, _, _)
PowMod(b, e, m) == IF e = 0 THEN 1 % m ELSE (b * PowMod(b, e - 1, m)) % m

\* float(raw) is the double nearest to h/Scale (ties to even).  With
\* 2^e <= h/Scale < 2^(e+1) and k = MantissaBits - 1 - e the double is
\* M / 2^k for the integer M nearest to h * 2^k / Scale, that is
\* h/Scale + RoundingError(h) / (Scale * 2^k).
BinaryExponent(h) == FloorLog2(h \div Scale)
RoundingError(h) ==
    LET k == MantissaBits - 1 - BinaryExponent(h)
        r == ((h % Scale) * PowMod(2, k, Scale)) % Scale
        t == ((h % (2 * Scale)) * PowMod(2, k, 2 * Scale)) % (2 * Scale)
        quotientOdd == ((t - r) \div Scale) % 2 = 1
    IN  IF r = 0 THEN 0
        ELSE IF 2 * r < Scale THEN -r
        ELSE IF 2 * r > Scale THEN Scale - r
        ELSE IF quotientOdd THEN Scale - r ELSE -r

\* int(length_minutes * c) for the double of h/Scale >= 1 and a small
\* positive integer c.  The exact product of the double by c is
\* c*h/Scale + c*RoundingError(h)/(Scale * 2^k); the float product is the
\* double nearest to it, and int() truncates.  When c*h/Scale is not an
\* integer the error is far smaller than its distance to an integer.  When
\* it is an integer N and the error is negative, the float product is N only
\* if the exact product is within half a unit in the last place below N;
\* otherwise it is a double below N and int() gives N - 1.
TruncatedProduct(h, c) ==
    LET e == BinaryExponent(h)
        s == RoundingError(h)
        N == (c * h) \div Scale
        eBelow == FloorLog2(N - 1)
    IN  IF (c * h) % Scale # 0 THEN N
        ELSE IF s >= 0 THEN N
        ELSE IF c * (-s) <= Scale * Pow2(eBelow - e - 1) THEN N
        ELSE N - 1

\* estimate_word_target(length_minutes) = int(length_minutes * 150)
estimate_word_target_rounded(minutes) ==
    (2 * WordsPerMinute * minutes + Scale) \div (2 * Scale)
estimate_word_target(minutes) == TruncatedProduct(minutes, WordsPerMinute)

-----------------------------------------------------------------------------
(* Categorizer *)

kw_doctor == <<"d","o","c","t","o","r">>
kw_hospital == <<"h","o","s","p","i","t","a","l">>
kw_nurse == <<"n","u","r","s","e">>
kw_space == <<"s","p","a","c","e">>
kw_planet == <<"p","l","a","n","e","t">>
kw_rocket == <<"r","o","c","k","e","t">>
kw_star == <<"s","t","a","r">>
kw_animal == <<"a","n","i","m","a","l">>
kw_cat == <<"c","a","t">>
kw_dog == <<"d","o","g">>
kw_forest == <<"f","o","r","e","s","t">>
kw_farm == <<"f","a","r","m">>

categorize_request_animal_first(request) ==
    LET text == lower(request)
    IN  IF Contains(text, kw_animal) \/ Contains(text, kw_cat) \/ Contains(text, kw_dog)
           \/ Contains(text, kw_forest) \/ Contains(text, kw_farm)
        THEN "animal_friendship"
        ELSE IF Contains(text, kw_doctor) \/ Contains(text, kw_hospital)
                \/ Contains(text, kw_nurse)
        THEN "medical_comfort"
        ELSE IF Contains(text, kw_space) \/ Contains(text, kw_planet)
                \/ Contains(text, kw_rocket) \/ Contains(text, kw_star)
        THEN "space_adventure"
        ELSE "generic"

categorize_request(request) ==
    LET text == lower(request)
    IN  IF Contains(text, kw_doctor) \/ Contains(text, kw_hospital)
           \/ Contains(text, kw_nurse)
        THEN "medical_comfort"
        ELSE IF Contains(text, kw_space) \/ Contains(text, kw_planet)
                \/ Contains(text, kw_rocket) \/ Contains(text, kw_star)
        THEN "space_adventure"
        ELSE IF Contains(text, kw_animal) \/ Contains(text, kw_cat) \/ Contains(text, kw_dog)
                \/ Contains(text, kw_forest) \/ Contains(text, kw_farm)
        THEN "animal_friendship"
        ELSE "generic"


-----------------------------------------------------------------------------
(* Moral selection and safety *)

SAFE_MORALS == <<
    <<"Kindness to others is important.">>,
    <<"Sharing and generosity make everyone happier.">>,
    <<"Being honest and telling the truth matters.">>,
    <<"It is okay to be afraid; courage means trying anyway.">>,
    <<"Friends help each other and work together.">>,
    <<"Taking care of the world and nature is important.">>,
    <<"Everyone makes mistakes, and we can learn from them.">>,
    <<"Being patient and not giving up helps you grow.">>,
    <<"It is important to be yourself and accept who you are.">>,
    <<"Helping others when they need it is a good thing.">> >>

\* Texts the service may return to the safety classifier (character level).
ClassifierResponses ==
    { <<"S","A","F","E">>,
      <<"U","N","S","A","F","E">>,
      <<>>,
      <<"s","a","f","e","-","i","s","h">>,
      <<" ","s","a","f","e","\n">> }

\* Texts the service may return to the story stages.
ServiceTexts == { <<"Once upon a time">>, <<"In a quiet valley">> }

NoError == "none"

\* call_model(prompt, ...): the outcomes of one call.  Without the credential
\* RuntimeError is raised before the request is made; otherwise the request is
\* made and either the service raises or the text of the reply is returned.
call_model_late_check(texts) ==
    IF ~api_key
    THEN {[kind |-> "RuntimeError", text |-> None, requested |-> TRUE]}
    ELSE {[kind |-> "ServiceError", text |-> None, requested |-> TRUE]}
         \cup {[kind |-> "return", text |-> t, requested |-> TRUE] : t \in texts}

call_model(texts) ==
    IF ~api_key
    THEN {[kind |-> "RuntimeError", text |-> None, requested |-> FALSE]}
    ELSE {[kind |-> "ServiceError", text |-> None, requested |-> TRUE]}
         \cup {[kind |-> "return", text |-> t, requested |-> TRUE] : t \in texts}

\* The service log after a call made from `site` with outcome o.
Requested(site, o) == IF o.requested THEN Append(calls, site) ELSE calls

\* classify_moral_safety(moral, age): the outcomes, each with the verdict
\* result.startswith("SAFE") of the stripped, upper-cased reply.
classify_moral_safety(moral, a) ==
    { [kind |-> o.kind,
       requested |-> o.requested,
       response |-> o.text,
       is_safe |-> /\ o.kind = "return"
                   /\ startswith(upper(strip(o.text)), <<"S","A","F","E">>)]
      : o \in call_model(ClassifierResponses) }

Chosen(moral, ovr, orig, c) ==
    [kind |-> "return", selected |-> moral, overridden |-> ovr, original |-> orig,
     requested |-> c.requested, response |-> c.response]

NoCall == [kind |-> "return", requested |-> FALSE, response |-> None, is_safe |-> FALSE]

Classified(um, c) ==
    IF c.kind # "return"
    THEN {[kind |-> c.kind, selected |-> None, overridden |-> FALSE, original |-> None,
           requested |-> c.requested, response |-> None]}
    ELSE IF c.is_safe
    THEN {Chosen(um, FALSE, None, c)}
    ELSE {Chosen(SAFE_MORALS[i], TRUE, um, c) : i \in DOMAIN SAFE_MORALS}

select_moral_always_classifies(um, a) ==
    UNION {Classified(um, c) : c \in classify_moral_safety(um, a)}

\* select_moral(user_moral, age): the outcomes (random.choice picks any entry
\* of SAFE_MORALS).
select_moral(um, a) ==
    IF um = <<>>
    THEN {Chosen(SAFE_MORALS[i], FALSE, None, NoCall) : i \in DOMAIN SAFE_MORALS}
    ELSE UNION {Classified(um, c) : c \in classify_moral_safety(um, a)}

-----------------------------------------------------------------------------
(* Operator entries *)

AgeInputs ==
    { <<"4">>, <<"5">>, <<" ","1","0">>, <<"1","1">>, <<"7",".","5">>,
      <<"s","i","x">>, <<>> }

LengthInputs ==
    { <<"4",".","9","9">>, <<"5",".","0","2">>, <<"2","0">>, <<"2","0",".","0","1">>,
      <<"n","a","n">>, <<"i","n","f">>, <<"t","e","n">> }

RequestInputs ==
    { <<"a"," ","D","o","c","t","o","r"," ">> \o kw_farm,
      <<"B","r","a","v","e"," ","D","O","G">>,
      <<"s","u","n">> }

MoralInputs == { <<>>, <<" ">>, <<" ", "be brave", "\n">>, <<"win at any cost">> }

NotesInputs == { <<>>, <<" ", "\n">>, <<" ", "more stars">> }

ValidAge_no_lower_bound(v) == v <= MaxAge
ValidAge(v) == MinAge <= v /\ v <= MaxAge

\* 5 <= minutes <= 20 on a float: false for nan and for the infinities.
ValidMinutes(f) ==
    f.kind = "finite" /\ MinMinutes * Scale <= f.value /\ f.value <= MaxMinutes * Scale

-----------------------------------------------------------------------------
(* main *)

Init ==
    /\ pc = "ask_for_age"
    /\ api_key \in BOOLEAN
    /\ age = 0
    /\ length_minutes = 0
    /\ user_request = None
    /\ user_moral = None
    /\ response = None
    /\ selected_moral = None
    /\ overridden = FALSE
    /\ original_moral = None
    /\ category = "unbound"
    /\ draft = None
    /\ feedback = None
    /\ revised = None
    /\ notes_raw = None
    /\ user_notes = None
    /\ started = <<>>
    /\ completed = <<>>
    /\ calls = <<>>
    /\ out = <<>>
    /\ error = NoError
    /\ reprompted = FALSE

\* An exception leaves main: nothing catches it.
Raise(kind) == pc' = "aborted" /\ error' = kind

\* age = ask_for_age()
main_ask_for_age ==
    /\ pc = "ask_for_age"
    /\ \E raw \in AgeInputs :
         LET v == ParseInt(raw)
         IN  IF v.kind = "int" /\ ValidAge(v.value)
             THEN age' = v.value /\ pc' = "ask_for_length_minutes"
                  /\ UNCHANGED reprompted
             ELSE reprompted' = TRUE /\ UNCHANGED <<age, pc>>
    /\ UNCHANGED <<api_key, length_minutes, user_request, user_moral, response,
                   selected_moral, overridden, original_moral, category, draft,
                   feedback, revised, notes_raw, user_notes, started, completed,
                   calls, out, error>>

\* length_minutes = ask_for_length_minutes()
main_ask_for_length_minutes ==
    /\ pc = "ask_for_length_minutes"
    /\ \E raw \in LengthInputs :
         LET f == ParseFloat(raw)
         IN  IF ValidMinutes(f)
             THEN length_minutes' = f.value /\ pc' = "input_request"
                  /\ UNCHANGED reprompted
             ELSE reprompted' = TRUE /\ UNCHANGED <<length_minutes, pc>>
    /\ UNCHANGED <<api_key, age, user_request, user_moral, response,
                   selected_moral, overridden, original_moral, category, draft,
                   feedback, revised, notes_raw, user_notes, started, completed,
                   calls, out, error>>

\* user_request = input(...)
main_input_request ==
    /\ pc = "input_request"
    /\ \E raw \in RequestInputs : user_request' = raw
    /\ pc' = "ask_for_moral"
    /\ UNCHANGED <<api_key, age, length_minutes, user_moral, response,
                   selected_moral, overridden, original_moral, category, draft,
                   feedback, revised, notes_raw, user_notes, started, completed,
                   calls, out, error, reprompted>>

\* user_moral = ask_for_moral()
main_ask_for_moral ==
    /\ pc = "ask_for_moral"
    /\ \E raw \in MoralInputs : user_moral' = strip(raw)
    /\ pc' = "select_moral"
    /\ UNCHANGED <<api_key, age, length_minutes, user_request, response,
                   selected_moral, overridden, original_moral, category, draft,
                   feedback, revised, notes_raw, user_notes, started, completed,
                   calls, out, error, reprompted>>

\* selected_moral, overridden, original_moral = select_moral(user_moral, age),
\* then the disclaimer or the "Using moral" line.
main_select_moral ==
    /\ pc = "select_moral"
    /\ started' = Append(started, [stage |-> "select_moral",
                                   user_moral |-> user_moral, age |-> age])
    /\ \E o \in select_moral(user_moral, age) :
         /\ calls' = Requested("classify_moral_safety", o)
         /\ response' = o.response
         /\ IF o.kind = "return"
            THEN /\ selected_moral' = o.selected
                 /\ overridden' = o.overridden
                 /\ original_moral' = o.original
                 /\ completed' = Append(completed, "select_moral")
                 /\ out' = Append(out,
                        IF o.overridden
                        THEN [block |-> "DISCLAIMER", original |-> o.original,
                              text |-> o.selected]
                        ELSE [block |-> "USING MORAL", original |-> None,
                              text |-> o.selected])
                 /\ pc' = "categorize_request"
                 /\ UNCHANGED error
            ELSE /\ Raise(o.kind)
                 /\ UNCHANGED <<selected_moral, overridden, original_moral,
                                completed, out>>
    /\ UNCHANGED <<api_key, age, length_minutes, user_request, user_moral, category,
                   draft, feedback, revised, notes_raw, user_notes, reprompted>>

\* category = categorize_request(user_request)
main_categorize_request ==
    /\ pc = "categorize_request"
    /\ started' = Append(started, [stage |-> "categorize_request",
                                   request |-> user_request])
    /\ category' = categorize_request(user_request)
    /\ completed' = Append(completed, "categorize_request")
    /\ pc' = "generate_story"
    /\ UNCHANGED <<api_key, age, length_minutes, user_request, user_moral, response,
                   selected_moral, overridden, original_moral, draft, feedback,
                   revised, notes_raw, user_notes, calls, out, error, reprompted>>


\* (variant: the error of the call is swallowed and an empty draft is used)
main_generate_story_swallows_error ==
    /\ pc = "generate_story"
    /\ started' = Append(started, [stage |-> "generate_story", request |-> user_request,
                                   age |-> age, category |-> category,
                                   length_minutes |-> length_minutes,
                                   moral |-> selected_moral,
                                   target_words |-> estimate_word_target(length_minutes)])
    /\ \E o \in call_model(ServiceTexts) :
         /\ calls' = Requested("generate_story", o)
         /\ IF o.kind = "return"
            THEN /\ draft' = o.text
                 /\ completed' = Append(completed, "generate_story")
                 /\ out' = Append(out, [block |-> "FIRST DRAFT", text |-> o.text])
                 /\ pc' = "judge_story"
                 /\ UNCHANGED error
            ELSE /\ error' = o.kind
                 /\ draft' = <<>>
                 /\ completed' = Append(completed, "generate_story")
                 /\ out' = Append(out, [block |-> "FIRST DRAFT", text |-> <<>>])
                 /\ pc' = "judge_story"
    /\ UNCHANGED <<api_key, age, length_minutes, user_request, user_moral, response,
                   selected_moral, overridden, original_moral, category, feedback,
                   revised, notes_raw, user_notes, reprompted>>

\* draft = generate_story(user_request, age, category, length_minutes,
\* selected_moral), then the FIRST DRAFT block.
main_generate_story ==
    /\ pc = "generate_story"
    /\ started' = Append(started, [stage |-> "generate_story", request |-> user_request,
                                   age |-> age, category |-> category,
                                   length_minutes |-> length_minutes,
                                   moral |-> selected_moral,
                                   target_words |-> estimate_word_target(length_minutes)])
    /\ \E o \in call_model(ServiceTexts) :
         /\ calls' = Requested("generate_story", o)
         /\ IF o.kind = "return"
            THEN /\ draft' = o.text
                 /\ completed' = Append(completed, "generate_story")
                 /\ out' = Append(out, [block |-> "FIRST DRAFT", text |-> o.text])
                 /\ pc' = "judge_story"
                 /\ UNCHANGED error
            ELSE /\ Raise(o.kind)
                 /\ UNCHANGED <<draft, completed, out>>
    /\ UNCHANGED <<api_key, age, length_minutes, user_request, user_moral, response,
                   selected_moral, overridden, original_moral, category, feedback,
                   revised, notes_raw, user_notes, reprompted>>

\* (variant: the revision is skipped after judging)
main_judge_story_skips_revision ==
    /\ pc = "judge_story"
    /\ started' = Append(started, [stage |-> "judge_story", story |-> draft, age |-> age,
                                   length_minutes |-> length_minutes,
                                   target_words |-> estimate_word_target(length_minutes)])
    /\ \E o \in call_model(ServiceTexts) :
         /\ calls' = Requested("judge_story", o)
         /\ IF o.kind = "return"
            THEN /\ feedback' = o.text
                 /\ completed' = Append(completed, "judge_story")
                 /\ out' = Append(out, [block |-> "SAFETY CLASSIFIER FEEDBACK", text |-> o.text])
                 /\ pc' = "input_notes"
                 /\ UNCHANGED error
            ELSE /\ Raise(o.kind)
                 /\ UNCHANGED <<feedback, completed, out>>
    /\ UNCHANGED <<api_key, age, length_minutes, user_request, user_moral, response,
                   selected_moral, overridden, original_moral, category, draft,
                   revised, notes_raw, user_notes, reprompted>>

\* feedback = judge_story(draft, age, length_minutes), then the SAFETY
\* CLASSIFIER FEEDBACK block.
main_judge_story ==
    /\ pc = "judge_story"
    /\ started' = Append(started, [stage |-> "judge_story", story |-> draft, age |-> age,
                                   length_minutes |-> length_minutes,
                                   target_words |-> estimate_word_target(length_minutes)])
    /\ \E o \in call_model(ServiceTexts) :
         /\ calls' = Requested("judge_story", o)
         /\ IF o.kind = "return"
            THEN /\ feedback' = o.text
                 /\ completed' = Append(completed, "judge_story")
                 /\ out' = Append(out, [block |-> "SAFETY CLASSIFIER FEEDBACK", text |-> o.text])
                 /\ pc' = "revise_story"
                 /\ UNCHANGED error
            ELSE /\ Raise(o.kind)
                 /\ UNCHANGED <<feedback, completed, out>>
    /\ UNCHANGED <<api_key, age, length_minutes, user_request, user_moral, response,
                   selected_moral, overridden, original_moral, category, draft,
                   revised, notes_raw, user_notes, reprompted>>

\* (variant: the revision is judged again)
main_revise_story_rejudges ==
    /\ pc = "revise_story"
    /\ started' = Append(started, [stage |-> "revise_story", original_story |-> draft,
                                   judge_feedback |-> feedback, age |-> age,
                                   length_minutes |-> length_minutes,
                                   target_words |-> estimate_word_target(length_minutes)])
    /\ \E o \in call_model(ServiceTexts) :
         /\ calls' = Requested("revise_story", o)
         /\ IF o.kind = "return"
            THEN /\ revised' = o.text
                 /\ completed' = Append(completed, "revise_story")
                 /\ out' = Append(out, [block |-> "REVISED STORY", text |-> o.text])
                 /\ pc' = "judge_story"
                 /\ UNCHANGED error
            ELSE /\ Raise(o.kind)
                 /\ UNCHANGED <<revised, completed, out>>
    /\ UNCHANGED <<api_key, age, length_minutes, user_request, user_moral, response,
                   selected_moral, overridden, original_moral, category, draft,
                   feedback, notes_raw, user_notes, reprompted>>

\* revised = revise_story(draft, feedback, age, length_minutes), then the
\* REVISED STORY block.
main_revise_story ==
    /\ pc = "revise_story"
    /\ started' = Append(started, [stage |-> "revise_story", original_story |-> draft,
                                   judge_feedback |-> feedback, age |-> age,
                                   length_minutes |-> length_minutes,
                                   target_words |-> estimate_word_target(length_minutes)])
    /\ \E o \in call_model(ServiceTexts) :
         /\ calls' = Requested("revise_story", o)
         /\ IF o.kind = "return"
            THEN /\ revised' = o.text
                 /\ completed' = Append(completed, "revise_story")
                 /\ out' = Append(out, [block |-> "REVISED STORY", text |-> o.text])
                 /\ pc' = "input_notes"
                 /\ UNCHANGED error
            ELSE /\ Raise(o.kind)
                 /\ UNCHANGED <<revised, completed, out>>
    /\ UNCHANGED <<api_key, age, length_minutes, user_request, user_moral, response,
                   selected_moral, overridden, original_moral, category, draft,
                   feedback, notes_raw, user_notes, reprompted>>

main_input_notes_unstripped ==
    /\ pc = "input_notes"
    /\ \E raw \in NotesInputs : notes_raw' = raw /\ user_notes' = raw
    /\ pc' = "refine"
    /\ UNCHANGED <<api_key, age, length_minutes, user_request, user_moral, response,
                   selected_moral, overridden, original_moral, category, draft,
                   feedback, revised, started, completed, calls, out, error,
                   reprompted>>

\* user_notes = input("Would you like any changes? ").strip()
main_input_notes ==
    /\ pc = "input_notes"
    /\ \E raw \in NotesInputs : notes_raw' = raw /\ user_notes' = strip(raw)
    /\ pc' = "refine"
    /\ UNCHANGED <<api_key, age, length_minutes, user_request, user_moral, response,
                   selected_moral, overridden, original_moral, category, draft,
                   feedback, revised, started, completed, calls, out, error,
                   reprompted>>

\* if user_notes: final_story = apply_user_feedback(revised, user_notes, age,
\* length_minutes) and the FINAL STORY block with it; else the FINAL STORY
\* block with revised.
main_refine ==
    /\ pc = "refine"
    /\ IF user_notes # <<>>
       THEN /\ started' = Append(started,
                    [stage |-> "apply_user_feedback", current_story |-> revised,
                     feedback |-> user_notes, age |-> age,
                     length_minutes |-> length_minutes,
                     target_words |-> estimate_word_target(length_minutes)])
            /\ \E o \in call_model(ServiceTexts) :
                 /\ calls' = Requested("apply_user_feedback", o)
                 /\ IF o.kind = "return"
                    THEN /\ completed' = Append(completed, "apply_user_feedback")
                         /\ out' = Append(out, [block |-> "FINAL STORY", text |-> o.text])
                         /\ pc' = "done"
                         /\ UNCHANGED error
                    ELSE /\ Raise(o.kind)
                         /\ UNCHANGED <<completed, out>>
       ELSE /\ out' = Append(out, [block |-> "FINAL STORY", text |-> revised])
            /\ pc' = "done"
            /\ UNCHANGED <<started, completed, calls, error>>
    /\ UNCHANGED <<api_key, age, length_minutes, user_request, user_moral, response,
                   selected_moral, overridden, original_moral, category, draft,
                   feedback, revised, notes_raw, user_notes, reprompted>>

Next ==
    \/ main_ask_for_age
    \/ main_ask_for_length_minutes
    \/ main_input_request
    \/ main_ask_for_moral
    \/ main_select_moral
    \/ main_categorize_request
    \/ main_generate_story
    \/ main_judge_story
    \/ main_revise_story
    \/ main_input_notes
    \/ main_refine

Spec == Init /\ [][Next]_vars


-----------------------------------------------------------------------------
(* categorize_request on its own: every request built from at most
   MaxFragments fragments, with keywords in mixed case, split across
   fragments ("Doc" "tor") and embedded in other text. *)

MaxFragments == 3

Fragments ==
    { <<"D","o","c">>, <<"t","o","r">>, <<"H","O","S","P","I","T","A","L">>,
      <<"N","u","r","s","e">>, kw_space, <<"P","l","a","n","e","t">>,
      <<"R","O","C","K","E","T">>, <<"S","t","a","r">>, kw_animal,
      <<"C","a","t">>, <<"D","O","G">>, kw_forest, <<"F","a","r","m">>,
      <<" ","a"," ">>, <<"s","u","n">> }

RECURSIVE Requests(_)
Requests(n) ==
    IF n = 0 THEN {<<>>}
    ELSE LET shorter == Requests(n - 1)
         IN  shorter \cup {r \o f : r \in shorter, f \in Fragments}

\* main just before line 408, for an operator who gave no moral.
AfterSelectMoral(a, minutes, request, i) ==
    /\ pc = "categorize_request"
    /\ api_key = TRUE
    /\ age = a
    /\ length_minutes = minutes
    /\ user_request = request
    /\ user_moral = <<>>
    /\ response = None
    /\ selected_moral = SAFE_MORALS[i]
    /\ overridden = FALSE
    /\ original_moral = None
    /\ category = "unbound"
    /\ draft = None
    /\ feedback = None
    /\ revised = None
    /\ notes_raw = None
    /\ user_notes = None
    /\ started = << [stage |-> "select_moral", user_moral |-> <<>>, age |-> a] >>
    /\ completed = << "select_moral" >>
    /\ calls = <<>>
    /\ out = << [block |-> "USING MORAL", original |-> None, text |-> SAFE_MORALS[i]] >>
    /\ error = NoError
    /\ reprompted = FALSE

InitCat == \E request \in Requests(MaxFragments) :
               AfterSelectMoral(MinAge, MinMinutes * Scale, request, 1)

NextCat == main_categorize_request

SpecCat == InitCat /\ [][NextCat]_vars

-----------------------------------------------------------------------------
(* estimate_word_target in the stages that use it: every valid length that
   is a multiple of 1/Scale minute. *)

InitLen == \E minutes \in (MinMinutes * Scale)..(MaxMinutes * Scale) :
               AfterSelectMoral(MaxAge, minutes, <<"s","u","n">>, 1)

NextLen ==
    \/ main_categorize_request
    \/ main_generate_story
    \/ main_judge_story
    \/ main_revise_story
    \/ main_input_notes
    \/ main_refine

SpecLen == InitLen /\ [][NextLen]_vars

-----------------------------------------------------------------------------
(* Properties *)

StageNames == [i \in DOMAIN started |-> started[i].stage]

Count(seq, x) == Cardinality({i \in DOMAIN seq : seq[i] = x})

IsPrefix(a, b) == Len(a) <= Len(b) /\ SubSeq(b, 1, Len(a)) = a

StoryStages == <<"generate_story", "judge_story", "revise_story", "apply_user_feedback">>

IsStoryStage(n) == n \in Range(StoryStages)

MainOrder == <<"select_moral", "categorize_request">> \o StoryStages

Returned(stage) == stage \in Range(completed)

\* the request site of a pipeline function
CallSite(stage) == IF stage = "select_moral" THEN "classify_moral_safety" ELSE stage

\* the blocks main prints after a pipeline function has returned
StageBlocks(stage) ==
    CASE stage = "select_moral" -> {"DISCLAIMER", "USING MORAL"}
      [] stage = "generate_story" -> {"FIRST DRAFT"}
      [] stage = "judge_story" -> {"SAFETY CLASSIFIER FEEDBACK"}
      [] stage = "revise_story" -> {"REVISED STORY"}
      [] stage = "apply_user_feedback" -> {"FINAL STORY"}
      [] OTHER -> {}

\* Unstarted = 0, Drafted = 1, Judged = 2, Revised = 3, Finalized = 4
PipelineState ==
    IF pc = "done" THEN 4
    ELSE IF Returned("revise_story") THEN 3
    ELSE IF Returned("judge_story") THEN 2
    ELSE IF Returned("generate_story") THEN 1
    ELSE 0

Ended == pc \in {"done", "aborted"}

\* C1 (as claimed): for a non-empty user moral, select_moral uses the user's
\* moral only when the classifier's reply is exactly SAFE; any other reply
\* gives overridden = true, a selected moral from SAFE_MORALS and
\* original_moral equal to the user's text.  The reply is compared here
\* without its surrounding whitespace and regardless of case, the reading of
\* "exactly SAFE" most favourable to the code.
C1_FailClosed ==
    (Returned("select_moral") /\ user_moral # <<>>) =>
        IF upper(strip(response)) = <<"S","A","F","E">>
        THEN ~overridden /\ selected_moral = user_moral
        ELSE /\ overridden
             /\ selected_moral \in Range(SAFE_MORALS)
             /\ original_moral = user_moral

\* C2: with an empty user moral select_moral returns overridden = false,
\* original_moral None and a selected moral from SAFE_MORALS, and makes no
\* classifier call nor any other service call.
C2_EmptyMoral ==
    (Returned("select_moral") /\ user_moral = <<>>) =>
        /\ ~overridden
        /\ original_moral = None
        /\ selected_moral \in Range(SAFE_MORALS)
        /\ "classify_moral_safety" \notin Range(calls)
        /\ (pc = "categorize_request" => calls = <<>>)

C2_Witness ==
    pc = "categorize_request" /\ user_moral = <<>> /\ completed = <<"select_moral">>

StoryStagesInOrder ==
    IsPrefix(SelectSeq(StageNames, IsStoryStage), StoryStages)

\* C3 (as claimed): in every run of main generate_story, judge_story and
\* revise_story are each invoked exactly once in that order, and
\* apply_user_feedback at most once and only after revise_story.
C3_Original ==
    Ended =>
        /\ StoryStagesInOrder
        /\ \A i \in 1..3 : Count(StageNames, StoryStages[i]) = 1

\* C3 (amended): the pipeline state only moves forward, one step at a time,
\* through Unstarted, Drafted, Judged, Revised, Finalized; the story stages
\* invoked are always a prefix of generate_story, judge_story, revise_story,
\* apply_user_feedback (each at most once, none re-entered); a run that
\* reaches the end of main has invoked the first three exactly once; and once
\* judge_story has returned revise_story is invoked next whatever the critique.
C3_Forward ==
    /\ [](/\ StoryStagesInOrder
          /\ (pc = "done" =>
                \A i \in 1..3 : Count(StageNames, StoryStages[i]) = 1)
          /\ ((completed # <<>> /\ completed[Len(completed)] = "judge_story") =>
                \/ pc = "revise_story"
                \/ started[Len(started)].stage = "revise_story"))
    /\ [][PipelineState' \in {PipelineState, PipelineState + 1}]_vars

C3_Witness ==
    /\ pc = "done"
    /\ SelectSeq(StageNames, IsStoryStage) = StoryStages
    /\ feedback # draft

\* C4: a service failure in any stage is not caught: main ends there, the
\* failing request was made once, no later stage is invoked and no block of
\* the failing or a later stage is printed.
C4_ServiceFailureAborts ==
    /\ [](error = "ServiceError" =>
            /\ pc = "aborted"
            /\ started # <<>>
            /\ LET failing == started[Len(started)].stage
               IN  /\ ~Returned(failing)
                   /\ calls # <<>>
                   /\ calls[Len(calls)] = CallSite(failing)
                   /\ Count(calls, CallSite(failing)) = 1
                   /\ Count(StageNames, failing) = 1
                   /\ \A i \in DOMAIN out :
                        \E s \in Range(completed) : out[i].block \in StageBlocks(s))
    /\ [][error # NoError => (started' = started /\ calls' = calls /\ out' = out)]_vars

C4_Witness ==
    /\ error = "ServiceError"
    /\ started[Len(started)].stage = "judge_story"
    /\ Len(out) = 2

\* C5 (as claimed): with no credential the configuration error is raised
\* before any pipeline stage has started.
C5_Original == error = "RuntimeError" => started = <<>>

\* C5 (amended): with no credential the configuration error is raised before
\* any request is made to the service, at the first stage that calls it: in
\* select_moral for a non-empty user moral (no stage has returned), and in
\* generate_story for an empty one (select_moral and categorize_request have
\* returned by then); Generator, Judge, Reviser and FeedbackApplier never
\* return.
C5_ConfigError ==
    /\ (error = "RuntimeError" =>
          /\ ~api_key
          /\ pc = "aborted"
          /\ IF user_moral = <<>>
             THEN /\ StageNames = <<"select_moral", "categorize_request", "generate_story">>
                  /\ completed = <<"select_moral", "categorize_request">>
             ELSE /\ StageNames = <<"select_moral">>
                  /\ completed = <<>>)
    /\ (~api_key =>
          /\ calls = <<>>
          /\ \A i \in DOMAIN StoryStages : ~Returned(StoryStages[i])
          /\ (Ended => error = "RuntimeError"))

C5_Witness ==
    /\ error = "RuntimeError"
    /\ user_moral = <<>>
    /\ Returned("categorize_request")

\* C6 (as claimed): categorize_request has returned before select_moral is
\* invoked.
C6_Original ==
    "select_moral" \in Range(StageNames) => Returned("categorize_request")

\* C6 (amended): the stages are invoked in the order select_moral,
\* categorize_request, generate_story, judge_story, revise_story, then
\* (optionally) apply_user_feedback, and each starts only after the previous
\* one has returned.
C6_StageOrder ==
    /\ IsPrefix(StageNames, MainOrder)
    /\ IsPrefix(completed, StageNames)
    /\ Len(StageNames) <= Len(completed) + 1
    /\ (Len(StageNames) = Len(completed) + 1 => pc = "aborted")

C6_Witness == completed = MainOrder

\* C7: when the operator's feedback is empty after stripping, the final story
\* printed is the revised story and no request follows revise_story's;
\* apply_user_feedback runs only for non-empty feedback, and then on the
\* revised story.
C7_EmptyFeedbackNoOp ==
    /\ (pc = "done" /\ strip(notes_raw) = <<>>) =>
          /\ out[Len(out)] = [block |-> "FINAL STORY", text |-> revised]
          /\ calls[Len(calls)] = "revise_story"
          /\ "apply_user_feedback" \notin Range(StageNames)
    /\ \A i \in DOMAIN started :
          started[i].stage = "apply_user_feedback" =>
              /\ strip(notes_raw) # <<>>
              /\ started[i].feedback = strip(notes_raw)
              /\ started[i].current_story = revised

C7_Witness == pc = "done" /\ notes_raw = <<" ", "\n">>

InAgeRange(a) == a \in MinAge..MaxAge
InMinutesRange(m) == MinMinutes * Scale <= m /\ m <= MaxMinutes * Scale

\* C8: whenever a stage runs, the age it sees is an integer in 5..10 and the
\* duration is within 5..20 minutes: rejected entries are asked again and
\* never reach a stage.
C8_ValidatedInputs ==
    /\ started # <<>> => InAgeRange(age) /\ InMinutesRange(length_minutes)
    /\ \A i \in DOMAIN started :
          /\ "age" \in DOMAIN started[i] => InAgeRange(started[i].age)
          /\ "length_minutes" \in DOMAIN started[i] =>
                InMinutesRange(started[i].length_minutes)

C8_Witness == reprompted /\ Returned("revise_story")

MedicalKeywords == {kw_doctor, kw_hospital, kw_nurse}
SpaceKeywords == {kw_space, kw_planet, kw_rocket, kw_star}
AnimalKeywords == {kw_animal, kw_cat, kw_dog, kw_forest, kw_farm}

\* some keyword of kws occurs in the request, compared case-insensitively
Matches(request, kws) == \E kw \in kws : Contains(lower(request), kw)

\* C9: categorize_request returns exactly one of the four categories and the
\* first matching one wins: medical_comfort if a medical keyword occurs, else
\* space_adventure if a space keyword occurs, else animal_friendship if an
\* animal keyword occurs, else generic.
C9_FirstMatchWins ==
    Returned("categorize_request") =>
        LET m == Matches(user_request, MedicalKeywords)
            sp == Matches(user_request, SpaceKeywords)
            an == Matches(user_request, AnimalKeywords)
        IN  /\ category \in {"medical_comfort", "space_adventure",
                             "animal_friendship", "generic"}
            /\ (category = "medical_comfort") = m
            /\ (category = "space_adventure") = (~m /\ sp)
            /\ (category = "animal_friendship") = (~m /\ ~sp /\ an)
            /\ (category = "generic") = (~m /\ ~sp /\ ~an)

C9_Witness ==
    /\ Returned("categorize_request")
    /\ category = "medical_comfort"
    /\ Contains(user_request, <<"D","o","c","t","o","r">>)
    /\ Contains(lower(user_request), kw_farm)

\* round(x) for x = p/Scale >= 0 as Python rounds: to the nearest integer,
\* a tie to the even one.
RoundHalfEven(p) ==
    LET q == p \div Scale
        twice == 2 * (p % Scale)
    IN  IF twice < Scale THEN q
        ELSE IF twice > Scale THEN q + 1
        ELSE IF q % 2 = 0 THEN q ELSE q + 1

\* C10 (as claimed): the target word count used by every stage equals
\* round(d * 150).
C10_Original ==
    \A i \in DOMAIN started :
        "target_words" \in DOMAIN started[i] =>
            started[i].target_words =
                RoundHalfEven(WordsPerMinute * started[i].length_minutes)

\* C10 (amended): for a valid duration d entered with at most two decimals the
\* target word count w used by every stage is d * 150 truncated, never rounded
\* up: w <= d * 150 <= w + 1, and w = floor(d * 150) whenever d * 150 is not
\* a whole number (when it is a whole number N, w is N or N - 1); every
\* stage of a run uses the same w.
C10_Truncates ==
    \A i \in DOMAIN started :
        "target_words" \in DOMAIN started[i] =>
            LET w == started[i].target_words
                p == WordsPerMinute * started[i].length_minutes
            IN  /\ w * Scale <= p
                /\ p <= (w + 1) * Scale
                /\ (p % Scale # 0 => p < (w + 1) * Scale)
                /\ \A j \in DOMAIN started :
                      "target_words" \in DOMAIN started[j] => started[j].target_words = w

C10_Witness ==
    /\ pc = "done"
    /\ Returned("apply_user_feedback")
    /\ (WordsPerMinute * length_minutes) % Scale # 0
    /\ started[Len(started)].target_words * Scale < WordsPerMinute * length_minutes

=============================================================================
